---- MODULE Spec2Model ----
(***************************************************************************)
(* Model of dm-rio/octo's dynamic user provisioning:                       *)
(*   - DynamicUserEntityProvider (providers/dynamicUserEntityProvider.ts), *)
(*     the in-memory cache of user entities that republishes its full      *)
(*     contents through a catalog EntityProviderConnection;                *)
(*   - rhdhSignInResolvers.oauth2TokenClaimResolver, which provisions a    *)
(*     user from token claims and then polls the catalog for it;           *)
(*   - rhdhSignInResolvers.oidcLdapUuidMatchingAnnotation, which compares  *)
(*     the UUID of the profile with the one in the ID token.               *)
(*                                                                         *)
(* Strings the code builds by concatenation are built with \o; strings the *)
(* code splits are sequences of one-character strings.                     *)
(***************************************************************************)
EXTENDS Integers, Sequences, FiniteSets, TLC

\* ------------------------------------------------------------------ bounds
\* Number of applyMutation calls one behaviour may make.
MaxCalls == 3
\* Number of sign-ins one behaviour may start.
MaxSignIns == 2
\* Number of catalog lookups one sign-in may make before the model stops it.
MaxLookups == 12
\* Length of the longest groups or roles list in a token payload given to the
\* claim extraction alone.
MaxEntitlements == 2

\* ----------------------------------------------------------- entity values
None == "<undefined>"

MkEntity(kind, namespace, name, email, memberOf) ==
  [ kind      |-> kind,
    namespace |-> namespace,
    name      |-> name,
    email     |-> email,
    memberOf  |-> memberOf ]

\* Entities handed to addOrUpdateUser directly: two versions of the same
\* user, a second user, and a user of the same name in another namespace.
Entities ==
  { MkEntity("User", "default", "jdoe", "jdoe@a", <<>>),
    MkEntity("User", "default", "jdoe", "jdoe@b", <<"group:default/a">>),
    MkEntity("User", "default", "ann",  "ann@a",  <<>>),
    MkEntity("User", "other",   "jdoe", "jdoe@a", <<>>) }

\* `${userEntity.kind}:${userEntity.metadata.namespace}/${userEntity.metadata.name}`
EntityKey(e) == e.kind \o ":" \o e.namespace \o "/" \o e.name

ProviderName == "dynamic-user-provider"

\* { entity: userEntity, locationKey: `dynamic-user-provider:${entityKey}` }
DeferredEntity(e) ==
  [ entity |-> e, locationKey |-> ProviderName \o ":" \o EntityKey(e) ]

Keys == { EntityKey(e) : e \in Entities }

\* Keys removeUser is called with: every key above and one never inserted.
RemoveKeys == Keys \cup { "User:default/nobody" }

\* ------------------------------------------- Map<string, DeferredEntity>
\* A JavaScript Map is a sequence of slots in insertion order.
MapHas(m, k) == \E i \in 1..Len(m) : m[i].key = k

\* Map.prototype.get: <<value>> when the key is present, <<>> (undefined) when not.
MapGet(m, k) ==
  IF MapHas(m, k)
  THEN << (CHOOSE s \in { m[i] : i \in 1..Len(m) } : s.key = k).value >>
  ELSE << >>

\* Map.prototype.set: an existing key keeps its position, a new key is appended.
MapSet(m, k, v) ==
  IF MapHas(m, k)
  THEN [ i \in 1..Len(m) |-> IF m[i].key = k THEN [ key |-> k, value |-> v ] ELSE m[i] ]
  ELSE Append(m, [ key |-> k, value |-> v ])

IsNotKey(s, k) == s.key # k

\* Map.prototype.delete
MapDelete(m, k) ==
  LET keep(s) == IsNotKey(s, k) IN SelectSeq(m, keep)

\* Array.from(map.values())
MapValues(m) == [ i \in 1..Len(m) |-> m[i].value ]

\* Reasons a connection may reject applyMutation with.
PublishErrors ==
  { [ id |-> "e1", name |-> "Error",         message |-> "catalog unavailable" ],
    [ id |-> "e2", name |-> "ConflictError", message |-> "conflicting location" ] }

Connections == { "c1", "c2" }

\* ------------------------------------------------ strings that are split
\* Index of the first occurrence of sep in s, 0 when there is none.
FirstIndex(s, sep) ==
  IF \E i \in 1..Len(s) : s[i] = sep
  THEN CHOOSE i \in 1..Len(s) : s[i] = sep /\ \A j \in 1..(i - 1) : s[j] # sep
  ELSE 0

\* String.prototype.split(sep) on a sequence of characters.
RECURSIVE Split(_, _)
Split(s, sep) ==
  LET i == FirstIndex(s, sep) IN
  IF i = 0 THEN << s >>
  ELSE << SubSeq(s, 1, i - 1) >> \o Split(SubSeq(s, i + 1, Len(s)), sep)

\* The string made of the characters of s.
RECURSIVE Join(_)
Join(s) == IF s = << >> THEN "" ELSE Head(s) \o Join(Tail(s))

\* ------------------------------------------------------- sign-in inputs
\* Payload segments that atob and JSON.parse decode, with the claims they hold.
PayloadClaims ==
  [ p0 |-> [ sub |-> "u" ],
    p1 |-> [ sub |-> "u", groups |-> << "a" >> ],
    p2 |-> [ sub |-> "u", groups |-> << "a" >>,
             resource_access |-> [ octo |-> [ roles |-> << "b" >> ] ] ],
    p3 |-> [ sub |-> "u", groups |-> << "a" >>,
             resource_access |-> [ app |-> [ roles |-> << "b" >> ] ] ] ]

\* Access tokens: absent, without a separator, with an undecodable payload,
\* and with each decodable payload.
\* An optional value is << >> (undefined) or << v >>.
AccessTokens ==
  { << >>, << << "h" >> >>, << << "h", ".", "x", ".", "s" >> >> }
    \cup { << << "h", ".", p, ".", "s" >> >> : p \in DOMAIN PayloadClaims }

\* Profile emails: absent, empty, and three addresses of two local parts.
Emails ==
  { << >>, << << >> >>,
    << << "j", "@", "a" >> >>, << << "j", "@", "b" >> >>, << << "k", "@", "a" >> >> }

\* Sign-ins the resolver is run on: every email with a token of each kind.
SignInTokens ==
  { t \in AccessTokens :
      t = << >> \/ t[1][Len(t[1])] = "h" \/ t[1][3] \in { "x", "p1", "p2" } }

SignInInfos == [ accessToken : SignInTokens, email : Emails ]

\* info.result.fullProfile?.tokenset.access_token?.split('.')
Tokens(info) ==
  IF info.accessToken = << >> THEN << >> ELSE << Split(info.accessToken[1], ".") >>

\* Whether JSON.parse(atob(tokens[1])) throws: tokens undefined, no second
\* segment, or a segment that does not decode.
ClaimsThrow(info) ==
  LET tokens == Tokens(info) IN
  \/ tokens = << >>
  \/ Len(tokens[1]) < 2
  \/ Len(tokens[1][2]) # 1
  \/ tokens[1][2][1] \notin DOMAIN PayloadClaims

\* JSON.parse(atob(tokens[1]))
Claims(info) == PayloadClaims[Tokens(info)[1][2][1]]

\* (mutant) only an undefined email is refused: if (info.profile.email === undefined)
EmailMissingUndefinedOnly(info) == info.email = << >>

\* if (!info.profile.email)
EmailMissing(info) == info.email = << >> \/ info.email[1] = << >>

\* An optional property read, obj?.f : <<value>> or <<>> (undefined).
Prop(opt, f) ==
  IF opt = << >> THEN << >>
  ELSE IF f \in DOMAIN opt[1] THEN << opt[1][f] >> ELSE << >>

\* opt ?? d
OrElse(opt, d) == IF opt = << >> THEN d ELSE opt[1]

\* (mutant) the whole email is the name
UsernameWholeEmail(email) == Join(email)

\* const [username] = info.profile.email.split('@')
Username(email) == Join(Split(email, "@")[1])

\* (mutant) the roles are put before the groups
EntitlementsRolesFirst(claims) ==
  OrElse(Prop(Prop(Prop(<< claims >>, "resource_access"), "octo"), "roles"), << >>)
    \o OrElse(Prop(<< claims >>, "groups"), << >>)

\* (claims?.groups ?? []).concat(claims?.resource_access?.octo?.roles ?? [])
Entitlements(claims) ==
  OrElse(Prop(<< claims >>, "groups"), << >>)
    \o OrElse(Prop(Prop(Prop(<< claims >>, "resource_access"), "octo"), "roles"), << >>)

GroupRef(entitlement) == "group:default/" \o entitlement

\* entitlements.map(entitlement => `group:default/${entitlement}`)
Groups(claims) ==
  LET ents == Entitlements(claims) IN [ i \in 1..Len(ents) |-> GroupRef(ents[i]) ]

\* Lists of entitlements a payload may hold, duplicates included.
EntitlementLists == UNION { [ 1..n -> { "a", "b" } ] : n \in 0..MaxEntitlements }

\* What a payload may hold under resource_access: nothing, or one client
\* ("octo" or another one) with or without a roles list.
ResourceAccesses ==
  { << >> } \cup
  { << [ octo |-> cl ] >> :
      cl \in { [ roles |-> l ] : l \in EntitlementLists } \cup { [ enabled |-> TRUE ] } } \cup
  { << [ app |-> cl ] >> :
      cl \in { [ roles |-> l ] : l \in EntitlementLists } \cup { [ enabled |-> TRUE ] } }

\* The decoded payload with an optional groups claim and an optional
\* resource_access claim.
ClaimsOf(g, ra) ==
  IF g # << >> /\ ra # << >> THEN [ groups |-> g[1], resource_access |-> ra[1] ]
  ELSE IF g # << >> THEN [ groups |-> g[1] ]
  ELSE IF ra # << >> THEN [ resource_access |-> ra[1] ]
  ELSE [ sub |-> "u" ]

\* Decoded payloads the claim extraction is run on alone.
ClaimInputs ==
  { ClaimsOf(g, ra) : g \in { << >> } \cup { << l >> : l \in EntitlementLists },
                      ra \in ResourceAccesses }

DEFAULT_NAMESPACE == "default"

\* const userEntity: Entity = { ... }
UserEntity(info) ==
  MkEntity("User", DEFAULT_NAMESPACE, Username(info.email[1]), Join(info.email[1]),
           Groups(Claims(info)))

\* toLocaleLowerCase('en-US') on the words entity references are made of.
Lower(w) == IF w = "User" THEN "user" ELSE w

\* stringifyEntityRef(userEntity)
StringifyEntityRef(e) ==
  Lower(e.kind) \o ":" \o Lower(e.namespace) \o "/" \o Lower(e.name)

\* Every key the cache can hold in this model.
AllKeys ==
  RemoveKeys \cup { EntityKey(MkEntity("User", DEFAULT_NAMESPACE, Username(m[1]), "", << >>)) :
                      m \in { x \in Emails : x # << >> /\ x[1] # << >> } }

\* ---------------------------------------------------- catalog lookups
\* Values ctx.signInWithCatalogUser may throw: a NotFoundError, another error
\* with name and message, an object without a message, and a string.
NotFoundError ==
  [ id |-> "t1", type |-> "object",
    props |-> [ name |-> "NotFoundError", message |-> "no user" ] ]

LookupErrors ==
  { NotFoundError,
    [ id |-> "t2", type |-> "object",
      props |-> [ name |-> "AuthenticationError", message |-> "denied" ] ],
    [ id |-> "t3", type |-> "object", props |-> [ name |-> "NotFoundError" ] ],
    [ id |-> "t4", type |-> "string", props |-> << >> ] }

\* typeof err === 'object' && err !== null && 'name' in err && 'message' in err
HasNameAndMessage(err) ==
  /\ err.type = "object"
  /\ "name" \in DOMAIN err.props
  /\ "message" \in DOMAIN err.props

\* typedErr.name === 'NotFoundError'
IsNotFound(err) == err.props.name = "NotFoundError"

MAX_RETRIES == 10
RETRY_DELAY_MS == 300

\* new Error(message), created at the given source line
NewError(line, message) ==
  [ id |-> "new@" \o line, type |-> "object",
    props |-> [ name |-> "Error", message |-> message ] ]

\* new Error(`Failed to sign in with catalog user: ${typedErr.message}`)
SignInFailedError(err) ==
  NewError("260", "Failed to sign in with catalog user: " \o err.props.message)

\* new Error(`User entity ${userEntityRef} not found in catalog after ${MAX_RETRIES} attempts`)
NotConvergedError(ref) ==
  NewError("268", "User entity " \o ref \o " not found in catalog after "
                    \o ToString(MAX_RETRIES) \o " attempts")

\* --------------------------------- inputs of oidcLdapUuidMatchingAnnotation
LDAP_UUID_ANNOTATION == "backstage.io/ldap-uuid"

\* The options of the resolver factory: undefined, or an object with either,
\* both or none of its two optional properties.
UuidOptions ==
  { << >>,
    << [ dangerouslyAllowSignInWithoutUserInCatalog |-> FALSE ] >>,
    << [ dangerouslyAllowSignInWithoutUserInCatalog |-> TRUE ] >>,
    << [ ldapUuidKey |-> "uid" ] >>,
    << [ ldapUuidKey |-> "uid", dangerouslyAllowSignInWithoutUserInCatalog |-> TRUE ] >> }

\* The object with property sub, and properties ldap_uuid and uid when given.
ClaimSet(ldapUuid, uid) ==
  [ k \in { "sub" } \cup (IF ldapUuid = << >> THEN { } ELSE { "ldap_uuid" })
                    \cup (IF uid = << >> THEN { } ELSE { "uid" }) |->
      IF k = "ldap_uuid" THEN ldapUuid[1] ELSE IF k = "uid" THEN uid[1] ELSE "s" ]

\* info.result.fullProfile.userinfo: the UUID absent, empty or one of two
\* values under the default key, absent or present under the other key.
Userinfos ==
  { ClaimSet(a, b) : a \in { << >>, << "" >>, << "u1" >>, << "u2" >> },
                     b \in { << >>, << "u1" >> } }

\* Payload segments of ID tokens that decode, with the claims they hold.
IdTokenClaims ==
  [ q0 |-> ClaimSet(<< >>, << >>),
    q1 |-> ClaimSet(<< "u1" >>, << >>),
    q2 |-> ClaimSet(<< "u2" >>, << "u1" >>),
    q3 |-> ClaimSet(<< >>, << "u2" >>) ]

\* info.result.fullProfile.tokenset.id_token: absent, empty, without a
\* separator, with an undecodable payload, and with each decodable payload.
IdTokens ==
  { << >>, << << >> >>, << << "h" >> >>, << << "h", ".", "x", ".", "s" >> >> }
    \cup { << << "h", ".", q, ".", "s" >> >> : q \in DOMAIN IdTokenClaims }

UuidSignInInfos == [ options : UuidOptions, userinfo : Userinfos, idToken : IdTokens ]

\* const uuidKey = options?.ldapUuidKey ?? 'ldap_uuid'
UuidKey(options) == OrElse(Prop(options, "ldapUuidKey"), "ldap_uuid")

\* if (!uuid): the property is undefined or ''.
UuidMissing(uuid) == uuid = << >> \/ uuid[1] = ""

\* if (!idToken): the token is undefined or ''.
IdTokenMissing(idToken) == idToken = << >> \/ idToken[1] = << >>

\* Whether decodeJwt(idToken) throws: not three segments, or a payload that
\* does not decode to an object.
DecodeJwtThrows(idToken) ==
  LET parts == Split(idToken, ".") IN
  \/ Len(parts) # 3
  \/ Len(parts[2]) # 1
  \/ parts[2][1] \notin DOMAIN IdTokenClaims

\* decodeJwt(idToken)
DecodeJwt(idToken) == IdTokenClaims[Split(idToken, ".")[2][1]]

\* (mutant) a claim absent from the ID token is not taken as a mismatch
UuidDiffersWhenPresent(uuid, uuidFromIdToken) ==
  uuidFromIdToken # << >> /\ uuidFromIdToken[1] # uuid

\* uuid !== uuidFromIdToken
UuidDiffers(uuid, uuidFromIdToken) == << uuid >> # uuidFromIdToken

\* options?.dangerouslyAllowSignInWithoutUserInCatalog ? { entityRef: uuid } : undefined
UuidFallback(options, uuid) ==
  IF OrElse(Prop(options, "dangerouslyAllowSignInWithoutUserInCatalog"), FALSE)
  THEN << [ entityRef |-> uuid ] >>
  ELSE << >>

\* The arguments of ctx.signInWithCatalogUser(query, options).
UuidSignInCall(options, uuid) ==
  [ annotations |-> << LDAP_UUID_ANNOTATION, uuid >>,
    dangerousEntityRefFallback |-> UuidFallback(options, uuid) ]

MissingUuidError ==
  NewError("141", "The user profile from LDAP is missing the UUID, likely due to a "
             \o "misconfiguration in the provider. Please contact your system "
             \o "administrator for assistance.")

MissingIdTokenError ==
  NewError("148", "The user ID token from LDAP is missing. Please contact your system "
             \o "administrator for assistance.")

\* The error decodeJwt throws.
JWTInvalid ==
  [ id |-> "thrown@153", type |-> "object",
    props |-> [ name |-> "JWTInvalid", message |-> "Invalid JWT" ] ]

UuidMismatchError ==
  NewError("155", "There was a problem verifying your identity with LDAP due to "
             \o "mismatching UUID. Please contact your system administrator for "
             \o "assistance.")

\* The sign-in result the catalog returns for a reference.
SignInResult(ref) == [ token |-> "token for " \o ref ]

\* The sign-in result made from a dangerousEntityRefFallback, for a user the
\* catalog does not hold.
FallbackSignInResult(fallback) ==
  [ token |-> "token for " \o fallback.entityRef, dangerousEntityRefFallback |-> TRUE ]

\* Options of the factory of oauth2TokenClaimResolver that allow the
\* dangerous fallback.
FallbackAllowed == << [ dangerouslyAllowSignInWithoutUserInCatalog |-> TRUE ] >>

\* (mutant) the fallback of the other resolvers is passed when the option is set
LookupCallWithFallback(ref, opts) ==
  [ entityRef |-> ref,
    dangerousEntityRefFallback |->
      IF OrElse(Prop(opts, "dangerouslyAllowSignInWithoutUserInCatalog"), FALSE)
      THEN << [ entityRef |-> ref ] >>
      ELSE << >> ]

\* The arguments of ctx.signInWithCatalogUser({ entityRef: userEntityRef }):
\* create() takes no options and the call has no second argument.
LookupCall(ref, opts) == [ entityRef |-> ref, dangerousEntityRefFallback |-> << >> ]

\* ------------------------------------------------------------------ state
VARIABLES
  connection,   \* this.connection: None or the registered connection
  userCache,    \* this.userCache
  nCalls,       \* number of applyMutation calls made so far
  lastCall,     \* the latest applyMutation call: its argument, its receiver,
                \* and how the connection settled it
  logged,       \* the latest logger call: <<level, message>>
  pc,           \* position of the provider call in progress
  arg,          \* the provider call in progress or last made, and nCalls at its start
  ret,          \* how the last provider call ended for its caller
  hist          \* per key, the latest upsert or removal asked for (history);
                \* repeat: that upsert found the key already in the cache

  ,
  \* oauth2TokenClaimResolver, one sign-in at a time
  options,       \* the options the resolver factory was configured with
  rpc,           \* position of the resolver
  signIns,       \* number of sign-ins started
  lastInfo,      \* info, the argument of the sign-in in progress or last made
  userEntityRef, \* const userEntityRef
  replaced,      \* the cache slot value that the upsert in progress of this
                 \* sign-in overwrote, if any (history)
  attempt,       \* let attempt
  result,        \* let result
  lookups,       \* number of ctx.signInWithCatalogUser calls of this sign-in
  lookupCall,    \* the arguments of the latest of them
  sleeps,        \* number of setTimeout(res, RETRY_DELAY_MS) sleeps of this sign-in
  notFounds,     \* number of lookups of this sign-in that threw the NotFoundError
  slept,         \* milliseconds slept in this sign-in
  caught,        \* err, the value caught by the catch block in progress or
                 \* by the one that ended the sign-in
  consoleErr,    \* the latest console.error argument
  outcome        \* what the resolver delivered to its caller

  ,
  \* the claim extraction of oauth2TokenClaimResolver run alone
  claimsIn,      \* const claims
  memberOf       \* const groups, once computed

  ,
  \* oidcLdapUuidMatchingAnnotation, one sign-in at a time
  uIn,           \* options of the factory and info of the sign-in
  upc,           \* position of the resolver
  uCall,         \* the arguments of its ctx.signInWithCatalogUser call, if made
  uOutcome       \* what the resolver delivered to its caller

  ,
  \* callers of the provider that do not wait for one another
  flows,         \* per flow, its provider call in progress: position, key,
                 \* number and argument of its applyMutation call
  catalog,       \* the entities the catalog holds for the provider: those of
                 \* the full mutation it applied last
  applied,       \* the numbers of the applyMutation calls the catalog applied,
                 \* in the order it applied them (history)
  overlapped,    \* some applyMutation call was made while another was pending
                 \* (history)
  mismatched     \* some applyMutation call carried entities other than those
                 \* of the cache as its caller's edit left it (history)

provVars == << connection, userCache, nCalls, lastCall, logged, pc, arg, ret, hist >>
resVars  == << options, rpc, signIns, lastInfo, userEntityRef, replaced, attempt, result, lookups, lookupCall,
               sleeps, notFounds, slept, caught, consoleErr, outcome >>
extVars  == << claimsIn, memberOf >>
uuidVars == << uIn, upc, uCall, uOutcome >>
concVars == << flows, catalog, applied, overlapped, mismatched >>
auxVars  == << extVars, uuidVars, concVars >>
vars     == << provVars, resVars, auxVars >>

NoCall == [ type |-> None, entities |-> << >>, on |-> None, state |-> None, reason |-> << >> ]
NoHist == [ op |-> "none", entity |-> << >>, repeat |-> FALSE ]
NoArg == [ op |-> None, key |-> None, entity |-> << >>, callsBefore |-> 0 ]
Pending == [ how |-> None, error |-> << >> ]
Returned == [ how |-> "returned", error |-> << >> ]
Threw(err) == [ how |-> "threw", error |-> << err >> ]

\* The record of an applyMutation(mutation) call on connection conn.
Call(mutation, conn) ==
  [ type |-> mutation.type, entities |-> mutation.entities, on |-> conn,
    state |-> "pending", reason |-> << >> ]

InitProvider ==
  /\ connection = None
  /\ userCache = <<>>
  /\ nCalls = 0
  /\ lastCall = NoCall
  /\ logged = << None, None >>
  /\ pc = "idle"
  /\ arg = NoArg
  /\ ret = Pending
  /\ hist = [ k \in AllKeys |-> NoHist ]

\* The locals of the resolver before any sign-in.
InitResolverLocals ==
  /\ rpc = "idle"
  /\ signIns = 0
  /\ lastInfo = [ accessToken |-> << >>, email |-> << >> ]
  /\ userEntityRef = None
  /\ replaced = << >>
  /\ attempt = 0
  /\ result = << >>
  /\ lookups = 0
  /\ lookupCall = << >>
  /\ sleeps = 0
  /\ notFounds = 0
  /\ slept = 0
  /\ caught = << >>
  /\ consoleErr = << >>
  /\ outcome = [ how |-> None ]

InitResolver == options = << >> /\ InitResolverLocals

\* No claim extraction is run alone.
InitExtraction ==
  /\ claimsIn = [ sub |-> "u" ]
  /\ memberOf = << >>

\* No sign-in has reached oidcLdapUuidMatchingAnnotation.
InitUuidResolver ==
  /\ uIn = [ options |-> << >>, userinfo |-> ClaimSet(<< >>, << >>), idToken |-> << >> ]
  /\ upc = "idle"
  /\ uCall = << >>
  /\ uOutcome = [ how |-> None ]

Flows == { "f1", "f2" }

\* The identities the concurrent flows provision.
FlowEntities ==
  { MkEntity("User", "default", "jdoe", "jdoe@example.com", << "group:default/a" >>),
    MkEntity("User", "default", "ann", "ann@example.com", << >>) }

IdleFlow == [ pc |-> "idle", key |-> None, callNo |-> 0, mutation |-> << >> ]

\* No flow is in a provider call and the catalog holds nothing of the provider.
InitConcurrent ==
  /\ flows = [ f \in Flows |-> IdleFlow ]
  /\ catalog = << >>
  /\ applied = << >>
  /\ overlapped = FALSE
  /\ mismatched = FALSE

Init ==
  InitProvider /\ InitResolver /\ InitExtraction /\ InitUuidResolver /\ InitConcurrent

\* ------------------------------------------- DynamicUserEntityProvider
\* getAllUsers(): the snapshot of the cache.
getAllUsers == MapValues(userCache)

\* connect(connection)
connect(c) ==
  /\ pc = "idle"
  /\ connection' = c
  /\ logged' = << "debug", "Dynamic User Entity Provider connected" >>
  /\ UNCHANGED << userCache, nCalls, lastCall, pc, arg, ret, hist >>

\* (mutant) the slot is appended without looking for the key
CacheAfterAddAppend(cache, e) ==
  Append(cache, [ key |-> EntityKey(e), value |-> DeferredEntity(e) ])

\* The cache after addOrUpdateUser's this.userCache.set(entityKey, deferredEntity).
CacheAfterAdd(cache, e) == MapSet(cache, EntityKey(e), DeferredEntity(e))

\* (mutant) only the slot written last is published, as a delta
DeltaMutation(cache) ==
  [ type |-> "delta",
    entities |-> IF cache = << >> THEN << >> ELSE << cache[Len(cache)].value >> ]

\* The mutation addOrUpdateUser and removeUser hand to applyMutation.
FullMutation(cache) == [ type |-> "full", entities |-> MapValues(cache) ]

\* (mutant) the connection is used without being tested
AddPublishesAlways(conn) == TRUE

\* Whether addOrUpdateUser publishes: if (this.connection)
AddPublishes(conn) == conn # None

\* addOrUpdateUser(userEntity), up to its await (or to its end when there is
\* no connection).
addOrUpdateUser(e) ==
  /\ pc = "idle"
  /\ AddPublishes(connection) => nCalls < MaxCalls
  /\ arg' = [ op |-> "add", key |-> EntityKey(e), entity |-> << e >>,
               callsBefore |-> nCalls ]
  /\ userCache' = CacheAfterAdd(userCache, e)
  /\ hist' = [ hist EXCEPT ![EntityKey(e)] =
                 [ op |-> "upsert", entity |-> << e >>,
                   repeat |-> MapHas(userCache, EntityKey(e)) ] ]
  /\ IF AddPublishes(connection)
     THEN /\ lastCall' = Call(FullMutation(userCache'), connection)
          /\ nCalls' = nCalls + 1
          /\ pc' = "addAwait"
          /\ ret' = Pending
          /\ UNCHANGED logged
     ELSE /\ logged' = << "warn", "No connection available to catalog" >>
          /\ ret' = Returned
          /\ UNCHANGED << lastCall, nCalls, pc >>
  /\ UNCHANGED connection

\* applyMutation resolved: addOrUpdateUser logs and returns.
addOrUpdateUserResolved ==
  /\ pc = "addAwait"
  /\ lastCall' = [ lastCall EXCEPT !.state = "fulfilled" ]
  /\ logged' = << "debug", "Successfully added/updated user entity: " \o arg.key >>
  /\ ret' = Returned
  /\ pc' = "idle"
  /\ UNCHANGED << connection, userCache, nCalls, arg, hist >>

\* (mutant) the catch block undoes the cache edit before rethrowing
addOrUpdateUserRejectedRollback(err) ==
  /\ pc = "addAwait"
  /\ lastCall' = [ lastCall EXCEPT !.state = "rejected", !.reason = << err >> ]
  /\ userCache' = MapDelete(userCache, arg.key)
  /\ logged' = << "error", "Failed to add/update user entity: " \o arg.key >>
  /\ ret' = Threw(err)
  /\ pc' = "idle"
  /\ UNCHANGED << connection, nCalls, arg, hist >>

\* applyMutation rejected: addOrUpdateUser logs and rethrows the error.
addOrUpdateUserRejected(err) ==
  /\ pc = "addAwait"
  /\ lastCall' = [ lastCall EXCEPT !.state = "rejected", !.reason = << err >> ]
  /\ logged' = << "error", "Failed to add/update user entity: " \o arg.key >>
  /\ ret' = Threw(err)
  /\ pc' = "idle"
  /\ UNCHANGED << connection, userCache, nCalls, arg, hist >>

\* (mutant) the key's presence is not tested: if (this.connection)
RemoveActsIgnoringPresence(cache, conn, k) == conn # None

\* Whether removeUser deletes and publishes: if (deferredEntity && this.connection)
RemoveActs(cache, conn, k) == MapGet(cache, k) # << >> /\ conn # None

\* removeUser(entityKey), up to its await (or to its end).
removeUser(k) ==
  /\ pc = "idle"
  /\ RemoveActs(userCache, connection, k) => nCalls < MaxCalls
  /\ arg' = [ op |-> "remove", key |-> k, entity |-> << >>, callsBefore |-> nCalls ]
  /\ hist' = IF MapHas(userCache, k)
             THEN [ hist EXCEPT ![k] = [ op |-> "remove", entity |-> << >>,
                                         repeat |-> FALSE ] ]
             ELSE hist
  /\ IF RemoveActs(userCache, connection, k)
     THEN /\ userCache' = MapDelete(userCache, k)
          /\ lastCall' = Call(FullMutation(userCache'), connection)
          /\ nCalls' = nCalls + 1
          /\ pc' = "removeAwait"
          /\ ret' = Pending
     ELSE /\ ret' = Returned
          /\ UNCHANGED << userCache, lastCall, nCalls, pc >>
  /\ UNCHANGED << connection, logged >>

\* applyMutation resolved: removeUser returns.
removeUserResolved ==
  /\ pc = "removeAwait"
  /\ lastCall' = [ lastCall EXCEPT !.state = "fulfilled" ]
  /\ ret' = Returned
  /\ pc' = "idle"
  /\ UNCHANGED << connection, userCache, nCalls, logged, arg, hist >>

\* applyMutation rejected: removeUser has no handler, the error reaches its caller.
removeUserRejected(err) ==
  /\ pc = "removeAwait"
  /\ lastCall' = [ lastCall EXCEPT !.state = "rejected", !.reason = << err >> ]
  /\ ret' = Threw(err)
  /\ pc' = "idle"
  /\ UNCHANGED << connection, userCache, nCalls, logged, arg, hist >>

\* ------------------------------------------- oauth2TokenClaimResolver
\* The resolver from its entry to its first await: it decodes the claims,
\* checks the email, builds the user entity and calls addOrUpdateUser.
resolverStart(info) ==
  /\ rpc \in { "idle", "done" }
  /\ pc = "idle"
  /\ signIns < MaxSignIns
  /\ signIns' = signIns + 1
  /\ lastInfo' = info
  /\ attempt' = 0
  /\ result' = << >>
  /\ lookups' = 0
  /\ lookupCall' = << >>
  /\ sleeps' = 0
  /\ notFounds' = 0
  /\ slept' = 0
  /\ caught' = << >>
  /\ consoleErr' = << >>
  /\ UNCHANGED options
  /\ IF ClaimsThrow(info)
     THEN /\ outcome' = [ how |-> "threw",
                          error |-> [ id |-> "thrown@193", type |-> "object",
                                      props |-> [ name |-> "TypeError or SyntaxError",
                                                  message |-> "cannot decode claims" ] ] ]
          /\ rpc' = "done"
          /\ userEntityRef' = None
          /\ replaced' = << >>
          /\ UNCHANGED provVars
     ELSE IF EmailMissing(info)
     THEN /\ outcome' = [ how |-> "threw",
                          error |-> NewError("195",
                             "Login failed, user profile does not contain an email") ]
          /\ rpc' = "done"
          /\ userEntityRef' = None
          /\ replaced' = << >>
          /\ UNCHANGED provVars
     ELSE /\ userEntityRef' = StringifyEntityRef(UserEntity(info))
          /\ replaced' = MapGet(userCache, EntityKey(UserEntity(info)))
          /\ addOrUpdateUser(UserEntity(info))
          /\ outcome' = [ how |-> None ]
          /\ rpc' = "upsertAwait"

\* (mutant) a failure of addOrUpdateUser is rethrown instead of written to the console
resolverAfterUpsertRethrow ==
  /\ rpc = "upsertAwait"
  /\ pc = "idle"
  /\ consoleErr' = ret.error
  /\ replaced' = << >>
  /\ IF ret.how = "threw"
     THEN outcome' = [ how |-> "threw", error |-> ret.error[1] ] /\ rpc' = "done"
     ELSE rpc' = "loop" /\ UNCHANGED outcome
  /\ UNCHANGED << provVars, options, signIns, lastInfo, userEntityRef, attempt, result, lookups,
                  lookupCall, sleeps, notFounds, slept, caught >>

\* await getUserEntityProvider().addOrUpdateUser(userEntity) has settled:
\* a failure is written to the console and the retry loop is entered.
resolverAfterUpsert ==
  /\ rpc = "upsertAwait"
  /\ pc = "idle"
  /\ consoleErr' = ret.error
  /\ replaced' = << >>
  /\ rpc' = "loop"
  /\ UNCHANGED << provVars, options, signIns, lastInfo, userEntityRef, attempt, result, lookups,
                  lookupCall, sleeps, notFounds, slept, caught, outcome >>

\* (mutant) the loop condition off by one: attempt <= MAX_RETRIES
LoopContinuesOffByOne(n) == n <= MAX_RETRIES

\* while (attempt < MAX_RETRIES)
LoopContinues(n) == n < MAX_RETRIES

\* The loop condition holds: ctx.signInWithCatalogUser({ entityRef }) is called.
resolverLookup ==
  /\ rpc = "loop"
  /\ LoopContinues(attempt)
  /\ lookups < MaxLookups
  /\ lookups' = lookups + 1
  /\ lookupCall' = << LookupCall(userEntityRef, options) >>
  /\ rpc' = "lookupAwait"
  /\ UNCHANGED << provVars, options, signIns, lastInfo, userEntityRef, replaced, attempt, result, sleeps,
                  notFounds, slept, caught, consoleErr, outcome >>

\* The loop condition fails with no result: if (!result) throw new Error(...)
resolverExhausted ==
  /\ rpc = "loop"
  /\ ~ LoopContinues(attempt)
  /\ outcome' = [ how |-> "threw", error |-> NotConvergedError(userEntityRef) ]
  /\ rpc' = "done"
  /\ UNCHANGED << provVars, options, signIns, lastInfo, userEntityRef, replaced, attempt, result, lookups,
                  lookupCall, sleeps, notFounds, slept, caught, consoleErr >>

\* The lookup resolved, with the user the catalog holds for the reference
\* or, when it holds none, for the fallback the call passed: result is set,
\* the loop is left and result returned.
resolverLookupResolved(inCatalog) ==
  /\ rpc = "lookupAwait"
  /\ inCatalog \/ lookupCall[1].dangerousEntityRefFallback # << >>
  /\ result' = << IF inCatalog
                  THEN SignInResult(lookupCall[1].entityRef)
                  ELSE FallbackSignInResult(lookupCall[1].dangerousEntityRefFallback[1]) >>
  /\ outcome' = [ how |-> "returned", value |-> result'[1] ]
  /\ rpc' = "done"
  /\ UNCHANGED << provVars, options, signIns, lastInfo, userEntityRef, replaced, attempt, lookups, lookupCall,
                  sleeps, notFounds, slept, caught, consoleErr >>

\* What the catch block does with a thrown value.
CatchAction(err) ==
  IF HasNameAndMessage(err)
  THEN IF IsNotFound(err) THEN "sleep" ELSE "throw"
  ELSE "loop"

\* (mutant) the NotFoundError of the last attempt ends the sign-in at once,
\* without a sleep
resolverLookupRejectedNoLastSleep(err) ==
  /\ rpc = "lookupAwait"
  /\ notFounds' = IF err = NotFoundError THEN notFounds + 1 ELSE notFounds
  /\ IF CatchAction(err) = "sleep" /\ attempt + 1 < MAX_RETRIES
     THEN /\ caught' = << err >>
          /\ sleeps' = sleeps + 1
          /\ rpc' = "sleep"
          /\ UNCHANGED outcome
     ELSE IF CatchAction(err) = "sleep"
     THEN /\ caught' = << >>
          /\ outcome' = [ how |-> "threw", error |-> NotConvergedError(userEntityRef) ]
          /\ rpc' = "done"
          /\ UNCHANGED sleeps
     ELSE IF CatchAction(err) = "throw"
     THEN /\ caught' = << err >>
          /\ outcome' = [ how |-> "threw", error |-> SignInFailedError(err) ]
          /\ rpc' = "done"
          /\ UNCHANGED sleeps
     ELSE /\ caught' = << >>
          /\ rpc' = "loop"
          /\ UNCHANGED << sleeps, outcome >>
  /\ UNCHANGED << provVars, options, signIns, lastInfo, userEntityRef, replaced, attempt, result, lookups,
                  lookupCall, slept, consoleErr >>

\* The lookup rejected with err: the catch block runs.
resolverLookupRejected(err) ==
  /\ rpc = "lookupAwait"
  /\ notFounds' = IF err = NotFoundError THEN notFounds + 1 ELSE notFounds
  /\ IF CatchAction(err) = "sleep"
     THEN /\ caught' = << err >>
          /\ sleeps' = sleeps + 1
          /\ rpc' = "sleep"
          /\ UNCHANGED outcome
     ELSE IF CatchAction(err) = "throw"
     THEN /\ caught' = << err >>
          /\ outcome' = [ how |-> "threw", error |-> SignInFailedError(err) ]
          /\ rpc' = "done"
          /\ UNCHANGED sleeps
     ELSE /\ caught' = << >>
          /\ rpc' = "loop"
          /\ UNCHANGED << sleeps, outcome >>
  /\ UNCHANGED << provVars, options, signIns, lastInfo, userEntityRef, replaced, attempt, result, lookups,
                  lookupCall, slept, consoleErr >>

\* The timer fired: attempt++; continue.
resolverSleepDone ==
  /\ rpc = "sleep"
  /\ slept' = slept + RETRY_DELAY_MS
  /\ attempt' = attempt + 1
  /\ caught' = << >>
  /\ rpc' = "loop"
  /\ UNCHANGED << provVars, options, signIns, lastInfo, userEntityRef, replaced, result, lookups, lookupCall,
                  sleeps, notFounds, consoleErr, outcome >>

\* ------------------------- DynamicUserEntityProvider, concurrent callers
\* Some flow other than f awaits its applyMutation call.
OtherPending(f) == \E g \in Flows \ { f } : flows[g].pc # "idle"

\* addOrUpdateUser(userEntity) called by flow f, up to its await (or to its
\* end when there is no connection): no other flow runs between the
\* cache edit and the applyMutation call.
flowAddOrUpdateUser(f, e) ==
  /\ flows[f].pc = "idle"
  /\ AddPublishes(connection) => nCalls < MaxCalls
  /\ userCache' = CacheAfterAdd(userCache, e)
  /\ IF AddPublishes(connection)
     THEN /\ flows' = [ flows EXCEPT ![f] =
                          [ pc |-> "addAwait", key |-> EntityKey(e), callNo |-> nCalls + 1,
                            mutation |-> << FullMutation(userCache') >> ] ]
          /\ nCalls' = nCalls + 1
          /\ overlapped' = (overlapped \/ OtherPending(f))
          /\ mismatched' = (mismatched \/ flows'[f].mutation[1].entities # getAllUsers')
          /\ UNCHANGED logged
     ELSE /\ logged' = << "warn", "No connection available to catalog" >>
          /\ UNCHANGED << flows, nCalls, overlapped, mismatched >>
  /\ UNCHANGED << connection, catalog, applied >>

\* removeUser(entityKey) called by flow f, up to its await (or to its end).
flowRemoveUser(f, k) ==
  /\ flows[f].pc = "idle"
  /\ RemoveActs(userCache, connection, k)
  /\ nCalls < MaxCalls
  /\ userCache' = MapDelete(userCache, k)
  /\ flows' = [ flows EXCEPT ![f] =
                  [ pc |-> "removeAwait", key |-> k, callNo |-> nCalls + 1,
                    mutation |-> << FullMutation(userCache') >> ] ]
  /\ nCalls' = nCalls + 1
  /\ overlapped' = (overlapped \/ OtherPending(f))
  /\ mismatched' = (mismatched \/ flows'[f].mutation[1].entities # getAllUsers')
  /\ UNCHANGED << connection, logged, catalog, applied >>

\* The connection applied the mutation of flow f's call, whichever other
\* calls are pending, and resolved it: the provider call of f returns.
flowResolved(f) ==
  /\ flows[f].pc \in { "addAwait", "removeAwait" }
  /\ catalog' = flows[f].mutation[1].entities
  /\ applied' = Append(applied, flows[f].callNo)
  /\ logged' = IF flows[f].pc = "addAwait"
               THEN << "debug", "Successfully added/updated user entity: " \o flows[f].key >>
               ELSE logged
  /\ flows' = [ flows EXCEPT ![f] = IdleFlow ]
  /\ UNCHANGED << connection, userCache, nCalls, overlapped, mismatched >>

\* The connection rejected flow f's call: the provider call of f throws.
flowRejected(f, err) ==
  /\ flows[f].pc \in { "addAwait", "removeAwait" }
  /\ logged' = IF flows[f].pc = "addAwait"
               THEN << "error", "Failed to add/update user entity: " \o flows[f].key >>
               ELSE logged
  /\ flows' = [ flows EXCEPT ![f] = IdleFlow ]
  /\ UNCHANGED << connection, userCache, nCalls, catalog, applied, overlapped, mismatched >>

\* ------------------------------------- oidcLdapUuidMatchingAnnotation
\* The resolver from its entry to its return of the ctx.signInWithCatalogUser
\* promise, or to the throw that ends it before.
uuidResolverStart(in) ==
  LET uuidKey == UuidKey(in.options)
      uuid    == Prop(<< in.userinfo >>, uuidKey)
  IN
  /\ upc \in { "idle", "done" }
  /\ uIn' = in
  /\ IF UuidMissing(uuid)
     THEN /\ uOutcome' = [ how |-> "threw", error |-> MissingUuidError ]
          /\ uCall' = << >>
          /\ upc' = "done"
     ELSE IF IdTokenMissing(in.idToken)
     THEN /\ uOutcome' = [ how |-> "threw", error |-> MissingIdTokenError ]
          /\ uCall' = << >>
          /\ upc' = "done"
     ELSE IF DecodeJwtThrows(in.idToken[1])
     THEN /\ uOutcome' = [ how |-> "threw", error |-> JWTInvalid ]
          /\ uCall' = << >>
          /\ upc' = "done"
     ELSE IF UuidDiffers(uuid[1], Prop(<< DecodeJwt(in.idToken[1]) >>, uuidKey))
     THEN /\ uOutcome' = [ how |-> "threw", error |-> UuidMismatchError ]
          /\ uCall' = << >>
          /\ upc' = "done"
     ELSE /\ uCall' = << UuidSignInCall(in.options, uuid[1]) >>
          /\ uOutcome' = [ how |-> None ]
          /\ upc' = "signInAwait"

\* ctx.signInWithCatalogUser resolved, with the user the catalog holds for
\* the annotation or, when there is none, for the fallback reference it was given.
uuidSignInResolved(found) ==
  /\ upc = "signInAwait"
  /\ found \/ uCall[1].dangerousEntityRefFallback # << >>
  /\ uOutcome' = [ how |-> "returned",
                   value |-> [ token |-> "token for " \o uCall[1].annotations[2],
                               fromCatalog |-> found ] ]
  /\ upc' = "done"
  /\ UNCHANGED << uIn, uCall >>

\* ctx.signInWithCatalogUser rejected: the rejection is the resolver's.
uuidSignInRejected(err) ==
  /\ upc = "signInAwait"
  /\ uOutcome' = [ how |-> "threw", error |-> err ]
  /\ upc' = "done"
  /\ UNCHANGED << uIn, uCall >>

\* ------------------------------------------------------ specifications
\* The provider called directly, one call at a time.
Next ==
  \/ \E c \in Connections : connect(c) /\ UNCHANGED << resVars, auxVars >>
  \/ \E e \in Entities : addOrUpdateUser(e) /\ UNCHANGED << resVars, auxVars >>
  \/ addOrUpdateUserResolved /\ UNCHANGED << resVars, auxVars >>
  \/ \E err \in PublishErrors : addOrUpdateUserRejected(err) /\ UNCHANGED << resVars, auxVars >>
  \/ \E k \in RemoveKeys : removeUser(k) /\ UNCHANGED << resVars, auxVars >>
  \/ removeUserResolved /\ UNCHANGED << resVars, auxVars >>
  \/ \E err \in PublishErrors : removeUserRejected(err) /\ UNCHANGED << resVars, auxVars >>

Spec == Init /\ [][Next]_vars

\* Sign-ins through the resolver, one at a time, on a provider that may or
\* may not have been connected.
NextResolver ==
  \/ rpc \in { "idle", "done" } /\ connection = None /\ connect("c1")
       /\ UNCHANGED << resVars, auxVars >>
  \/ \E info \in SignInInfos : resolverStart(info) /\ UNCHANGED auxVars
  \/ rpc = "upsertAwait" /\ addOrUpdateUserResolved /\ UNCHANGED << resVars, auxVars >>
  \/ \E err \in PublishErrors :
        rpc = "upsertAwait" /\ addOrUpdateUserRejected(err) /\ UNCHANGED << resVars, auxVars >>
  \/ resolverAfterUpsert /\ UNCHANGED auxVars
  \/ resolverLookup /\ UNCHANGED auxVars
  \/ resolverExhausted /\ UNCHANGED auxVars
  \/ \E inCatalog \in BOOLEAN : resolverLookupResolved(inCatalog) /\ UNCHANGED auxVars
  \/ \E err \in LookupErrors : resolverLookupRejected(err) /\ UNCHANGED auxVars
  \/ resolverSleepDone /\ UNCHANGED auxVars

SpecResolver == Init /\ [][NextResolver]_vars

\* The same sign-ins through a resolver whose factory was configured with
\* the dangerous fallback allowed.
InitFallbackAllowed ==
  /\ InitProvider /\ InitResolverLocals /\ InitExtraction /\ InitUuidResolver
  /\ InitConcurrent
  /\ options = FallbackAllowed

SpecFallbackAllowed == InitFallbackAllowed /\ [][NextResolver]_vars

\* The claim extraction alone, on each decoded payload.
InitClaims ==
  /\ InitProvider /\ InitResolver /\ InitUuidResolver /\ InitConcurrent
  /\ claimsIn \in ClaimInputs
  /\ memberOf = << >>

\* const groups = entitlements?.map(...)
extractGroups ==
  /\ memberOf = << >>
  /\ memberOf' = << Groups(claimsIn) >>
  /\ UNCHANGED claimsIn

NextClaims == extractGroups /\ UNCHANGED << provVars, resVars, uuidVars, concVars >>

SpecClaims == InitClaims /\ [][NextClaims]_vars

\* Sign-ins through oidcLdapUuidMatchingAnnotation, one at a time.
NextUuid ==
  \/ \E in \in UuidSignInInfos :
        uuidResolverStart(in) /\ UNCHANGED << provVars, resVars, extVars, concVars >>
  \/ \E found \in BOOLEAN :
        uuidSignInResolved(found) /\ UNCHANGED << provVars, resVars, extVars, concVars >>
  \/ \E err \in LookupErrors :
        uuidSignInRejected(err) /\ UNCHANGED << provVars, resVars, extVars, concVars >>

SpecUuid == Init /\ [][NextUuid]_vars

\* What the concurrent flows leave alone: the bookkeeping of the single
\* caller and the resolvers.
flowRest == << lastCall, pc, arg, ret, hist, resVars, extVars, uuidVars >>

\* Flows that call the provider without waiting for one another.
NextConcurrent ==
  \/ connection = None /\ connect("c1") /\ UNCHANGED << resVars, auxVars >>
  \/ \E f \in Flows, e \in FlowEntities : flowAddOrUpdateUser(f, e) /\ UNCHANGED flowRest
  \/ \E f \in Flows, e \in FlowEntities : flowRemoveUser(f, EntityKey(e)) /\ UNCHANGED flowRest
  \/ \E f \in Flows : flowResolved(f) /\ UNCHANGED flowRest
  \/ \E f \in Flows, err \in PublishErrors : flowRejected(f, err) /\ UNCHANGED flowRest

SpecConcurrent == Init /\ [][NextConcurrent]_vars

\* ================================================================ claims
\* The sign-in has ended after entering the retry loop.
LoopEnded == rpc = "done" /\ userEntityRef # None

\* C1: when every catalog lookup of a sign-in throws the NotFoundError, the
\* retry loop makes exactly 10 lookups with a 300 ms sleep between them, and
\* then throws an error naming the entity reference and the count 10; no
\* sign-in result is returned.
C1_AllNotFoundExhausts ==
  (LoopEnded /\ notFounds = lookups) =>
    /\ lookups = 10
    /\ sleeps >= lookups - 1
    /\ slept = sleeps * 300
    /\ result = << >>
    /\ outcome.how = "threw"
    /\ outcome.error.props.message =
         "User entity " \o userEntityRef \o " not found in catalog after 10 attempts"

C1_Witness ==
  /\ LoopEnded /\ notFounds = 10 /\ lookups = 10
  /\ outcome.how = "threw"
  /\ userEntityRef = "user:default/j"

\* C2 (as claimed): a lookup failure that the catch block does not treat as
\* 'not found' ends the sign-in with that same failure, unchanged.
C2_OtherFailureUnchanged ==
  (LoopEnded /\ caught # << >>) => outcome = [ how |-> "threw", error |-> caught[1] ]

\* C3: when the first k-1 lookups throw the NotFoundError and the k-th
\* succeeds (k in 1..10), the sign-in returns that lookup's result after
\* exactly k lookups and k-1 sleeps of 300 ms.
C3_SucceedsOnKth ==
  (LoopEnded /\ outcome.how = "returned" /\ notFounds = lookups - 1) =>
    /\ lookups \in 1..10
    /\ sleeps = lookups - 1
    /\ slept = 300 * (lookups - 1)
    /\ attempt = lookups - 1
    /\ result = << SignInResult(userEntityRef) >>
    /\ outcome.value = result[1]

C3_Witness ==
  /\ LoopEnded /\ outcome.how = "returned"
  /\ notFounds = 2 /\ lookups = 3 /\ sleeps = 2

\* C3, the last k: nine NotFoundErrors, then success on the tenth lookup.
C3_WitnessTenth ==
  /\ LoopEnded /\ outcome.how = "returned"
  /\ notFounds = 9 /\ lookups = 10

\* C4 (as claimed): whatever the lookups throw, a sign-in makes at most 10
\* lookups.
C4_AtMostTenLookups == lookups <= 10

\* Number of slots of the snapshot that hold key k.
SlotsOf(k) ==
  Cardinality({ i \in 1..Len(getAllUsers) : EntityKey(getAllUsers[i].entity) = k })

\* C5: the snapshot holds exactly one entry for each key whose latest call
\* was an upsert, that entry is the record of the latest upsert, and no
\* entry for a key never upserted; while nothing was removed, the snapshot's
\* length is the number of distinct keys upserted.
C5_OneSlotPerKeyLastWriteWins ==
  /\ \A k \in AllKeys :
       /\ hist[k].op = "upsert" =>
            /\ SlotsOf(k) = 1
            /\ \E i \in 1..Len(getAllUsers) :
                 getAllUsers[i] = DeferredEntity(hist[k].entity[1])
       /\ hist[k].op = "none" => SlotsOf(k) = 0
  /\ (\A k \in AllKeys : hist[k].op # "remove") =>
       Len(getAllUsers) = Cardinality({ k \in AllKeys : hist[k].op = "upsert" })

\* Two keys upserted, one of them twice.
C5_Witness ==
  /\ Len(getAllUsers) = 2
  /\ \A k \in AllKeys : hist[k].op # "remove"
  /\ \E k \in AllKeys : hist[k].op = "upsert" /\ hist[k].repeat
  /\ \E k \in AllKeys : hist[k].op = "upsert" /\ ~ hist[k].repeat

\* C6: removeUser with a key that is not in the cache leaves the cache
\* unchanged and makes no applyMutation call.
C6_RemoveAbsentIsNoOp ==
  [][ \A k \in RemoveKeys :
        (removeUser(k) /\ ~ MapHas(userCache, k)) =>
          /\ userCache' = userCache
          /\ nCalls' = nCalls
          /\ lastCall' = lastCall
          /\ ret' = Returned ]_vars

\* removeUser of a key never inserted, on a connected, non-empty cache.
C6_Witness ==
  /\ arg.op = "remove" /\ arg.key = "User:default/nobody"
  /\ pc = "idle" /\ ret = Returned
  /\ connection # None
  /\ userCache # << >>

\* removeUser of a key never inserted, with no connection registered.
C6_WitnessUnconnected ==
  /\ arg.op = "remove" /\ arg.key = "User:default/nobody"
  /\ connection = None
  /\ userCache # << >>

\* C7 (as claimed): a key whose latest call was a removeUser that found it in
\* the cache is absent from the cache, connection or not.
C7_RemovedKeyAbsent ==
  \A k \in AllKeys : hist[k].op = "remove" => ~ MapHas(userCache, k)

\* C8: every applyMutation call has type 'full' and carries the complete
\* cache as it is at the call, that is with the upserted record in it or
\* the removed key out of it.
C8_PublishIsFullSnapshot ==
  [][ nCalls' # nCalls =>
        /\ nCalls' = nCalls + 1
        /\ lastCall'.type = "full"
        /\ lastCall'.entities = MapValues(userCache')
        /\ arg'.op = "add" =>
             \E i \in 1..Len(lastCall'.entities) :
               lastCall'.entities[i] = DeferredEntity(arg'.entity[1])
        /\ arg'.op = "remove" =>
             /\ Len(lastCall'.entities) = Len(userCache) - 1
             /\ \A i \in 1..Len(lastCall'.entities) :
                  EntityKey(lastCall'.entities[i].entity) # arg'.key ]_vars

\* A publish made by removeUser that still carries an entity.
C8_Witness ==
  /\ pc = "removeAwait"
  /\ lastCall.state = "pending"
  /\ Len(lastCall.entities) >= 1

\* A publish made by addOrUpdateUser that carries two entities.
C8_WitnessAdd ==
  /\ pc = "addAwait"
  /\ lastCall.state = "pending"
  /\ Len(lastCall.entities) = 2

\* C9: addOrUpdateUser without a connection stores the record under its
\* key, makes no applyMutation call and returns normally.
C9_UpsertWithoutConnection ==
  (connection = None /\ arg.op = "add") =>
    /\ MapGet(userCache, arg.key) = << DeferredEntity(arg.entity[1]) >>
    /\ nCalls = 0
    /\ lastCall = NoCall
    /\ pc = "idle"
    /\ ret = Returned
    /\ logged[1] = "warn"

C9_Witness ==
  /\ connection = None /\ arg.op = "add"
  /\ ret = Returned
  /\ hist[arg.key].repeat

\* C10: when the applyMutation call of addOrUpdateUser is rejected, the
\* cache still holds the upserted record, the caller of addOrUpdateUser gets
\* the rejection, and no second applyMutation call was made.
C10_PublishFailureKeepsEdit ==
  (arg.op = "add" /\ pc = "idle" /\ lastCall.state = "rejected") =>
    /\ MapGet(userCache, arg.key) = << DeferredEntity(arg.entity[1]) >>
    /\ ret = Threw(lastCall.reason[1])
    /\ nCalls = arg.callsBefore + 1

C10_Witness ==
  /\ arg.op = "add" /\ pc = "idle" /\ lastCall.state = "rejected"
  /\ ret.how = "threw"
  /\ Len(userCache) = 2

\* What the catalog lookups of an ended sign-in make its outcome: the result
\* of the lookup that succeeded, the error made from the failure that stopped
\* the loop, or the error of the exhausted loop.
OutcomeOfLookups ==
  IF result # << >> THEN [ how |-> "returned", value |-> result[1] ]
  ELSE IF caught # << >> THEN [ how |-> "threw", error |-> SignInFailedError(caught[1]) ]
  ELSE [ how |-> "threw", error |-> NotConvergedError(userEntityRef) ]

\* The applyMutation call of this sign-in's upsert was rejected.
UpsertFailed == userEntityRef # None /\ lastCall.state = "rejected"

\* C11: a sign-in whose upsert failed to publish still enters the retry
\* loop (the failure only goes to the console), and the outcome of every
\* sign-in that built its entity is the one its lookups make, whether the
\* publish succeeded, failed or was skipped.
C11_PublishFailureDoesNotAbort ==
  /\ UpsertFailed =>
       /\ rpc \in { "upsertAwait", "loop", "lookupAwait", "sleep", "done" }
       /\ rpc # "upsertAwait" => consoleErr = lastCall.reason
       /\ rpc = "done" => lookups >= 1
  /\ LoopEnded => lookups >= 1 /\ outcome = OutcomeOfLookups

\* A sign-in whose publish was rejected and which returned a sign-in result.
C11_Witness ==
  /\ UpsertFailed /\ rpc = "done"
  /\ consoleErr # << >>
  /\ outcome.how = "returned"

\* A sign-in whose publish was rejected and whose lookups were exhausted.
C11_WitnessExhausted ==
  /\ UpsertFailed /\ rpc = "done"
  /\ outcome = [ how |-> "threw", error |-> NotConvergedError(userEntityRef) ]

\* The access token holds no payload segment that decodes: it is absent, has
\* no separator, or the segment after the first separator is not a payload.
NoParseablePayload(info) ==
  \/ info.accessToken = << >>
  \/ FirstIndex(info.accessToken[1], ".") = 0
  \/ info.accessToken[1][FirstIndex(info.accessToken[1], ".") + 1] \notin DOMAIN PayloadClaims

\* The profile holds no email: it is undefined or the empty string.
NoEmail(info) == info.email \in { << >>, << << >> >> }

\* C12: a sign-in whose token has no parseable payload segment, or whose
\* profile has no email, ends in its first step by throwing that failure:
\* the provider (cache, connection, publishes) is left as it was, no lookup
\* is made and no sign-in result is set.
C12_ExtractionFailureAborts ==
  [][ (signIns' # signIns /\ (NoParseablePayload(lastInfo') \/ NoEmail(lastInfo'))) =>
        /\ UNCHANGED provVars
        /\ rpc' = "done"
        /\ lookups' = 0
        /\ result' = << >>
        /\ outcome'.how = "threw"
        /\ outcome'.error.id =
             IF NoParseablePayload(lastInfo') THEN "thrown@193" ELSE "new@195"
    ]_vars

\* A second sign-in, on a filled cache, that ended for its missing email.
C12_Witness ==
  /\ rpc = "done" /\ signIns = 2 /\ userEntityRef = None
  /\ NoEmail(lastInfo) /\ ~ NoParseablePayload(lastInfo)
  /\ userCache # << >>
  /\ outcome.how = "threw" /\ outcome.error.id = "new@195"

\* A second sign-in, on a filled cache, that ended for its token.
C12_WitnessToken ==
  /\ rpc = "done" /\ signIns = 2 /\ userEntityRef = None
  /\ NoParseablePayload(lastInfo)
  /\ userCache # << >>
  /\ outcome.how = "threw" /\ outcome.error.id = "thrown@193"

\* The groups claim of a decoded payload, empty when absent.
GroupsClaim(c) == IF "groups" \in DOMAIN c THEN c.groups ELSE << >>

\* The roles list of a client under resource_access, empty when any level
\* of the path is absent.
RolesOf(c, client) ==
  IF /\ "resource_access" \in DOMAIN c
     /\ client \in DOMAIN c.resource_access
     /\ "roles" \in DOMAIN c.resource_access[client]
  THEN c.resource_access[client].roles
  ELSE << >>

\* {"groups":["a"],"resource_access":{"app":{"roles":["b"]}}}
PayloadWithAppRoles ==
  [ groups |-> << "a" >>, resource_access |-> [ app |-> [ roles |-> << "b" >> ] ] ]

\* {"groups":["a"],"resource_access":{"octo":{"roles":["b"]}}}
PayloadWithOctoRoles ==
  [ groups |-> << "a" >>, resource_access |-> [ octo |-> [ roles |-> << "b" >> ] ] ]

\* C13 (as claimed): the payload
\* {"groups":["a"],"resource_access":{"app":{"roles":["b"]}}} yields exactly
\* group:default/a and group:default/b.
C13_AppRolesExtracted ==
  (memberOf # << >> /\ claimsIn = PayloadWithAppRoles) =>
    memberOf[1] = << "group:default/a", "group:default/b" >>

\* C13 (amended): the memberships are the groups claim followed by the roles
\* list at resource_access.octo.roles, each empty when absent, order and
\* duplicates kept, each entitlement e mapped to group:default/e; their
\* number is the sum of the two lengths. The roles of any other client are
\* not read: the payload with "octo" yields group:default/a and
\* group:default/b, the one with "app" only group:default/a.
C13_GroupsThenOctoRoles ==
  memberOf # << >> =>
    LET g   == GroupsClaim(claimsIn)
        r   == RolesOf(claimsIn, "octo")
        out == memberOf[1]
    IN  /\ Len(out) = Len(g) + Len(r)
        /\ \A i \in 1..Len(g) : out[i] = "group:default/" \o g[i]
        /\ \A i \in 1..Len(r) : out[Len(g) + i] = "group:default/" \o r[i]
        /\ claimsIn = PayloadWithOctoRoles =>
             out = << "group:default/a", "group:default/b" >>
        /\ claimsIn = PayloadWithAppRoles => out = << "group:default/a" >>

\* Groups a, a and octo roles b, a: four memberships, in that order.
C13_Witness ==
  /\ GroupsClaim(claimsIn) = << "a", "a" >>
  /\ RolesOf(claimsIn, "octo") = << "b", "a" >>
  /\ memberOf = << << "group:default/a", "group:default/a",
                      "group:default/b", "group:default/a" >> >>

\* The payload with the roles under "app", extracted.
C13_WitnessApp == claimsIn = PayloadWithAppRoles /\ memberOf # << >>

\* The UUID the profile holds under the configured key, when it holds one.
ProfileUuid ==
  LET key == IF uIn.options # << >> /\ "ldapUuidKey" \in DOMAIN uIn.options[1]
             THEN uIn.options[1].ldapUuidKey ELSE "ldap_uuid"
  IN  IF key \in DOMAIN uIn.userinfo /\ uIn.userinfo[key] # ""
      THEN << uIn.userinfo[key] >> ELSE << >>

\* The ID token is present and decodes.
IdTokenDecodes ==
  /\ uIn.idToken # << >>
  /\ Len(uIn.idToken[1]) = 5
  /\ uIn.idToken[1][3] \in DOMAIN IdTokenClaims

\* The value of the same claim in the decoded ID token, when it holds one.
IdTokenUuid ==
  LET key == IF uIn.options # << >> /\ "ldapUuidKey" \in DOMAIN uIn.options[1]
             THEN uIn.options[1].ldapUuidKey ELSE "ldap_uuid"
      cl  == IdTokenClaims[uIn.idToken[1][3]]
  IN  IF key \in DOMAIN cl THEN << cl[key] >> ELSE << >>

DangerousFallbackAllowed ==
  /\ uIn.options # << >>
  /\ "dangerouslyAllowSignInWithoutUserInCatalog" \in DOMAIN uIn.options[1]
  /\ uIn.options[1].dangerouslyAllowSignInWithoutUserInCatalog

\* C14: in the UUID cross-check resolver, when the UUID of the profile and
\* the value of the same claim decoded from the ID token differ (the claim
\* absent from the token included), the sign-in has ended with the
\* UUID-mismatch error, no ctx.signInWithCatalogUser call was made and no
\* sign-in result was returned, with or without the dangerous fallback
\* option.
C14_UuidMismatchFails ==
  (upc # "idle" /\ ProfileUuid # << >> /\ IdTokenDecodes /\ ProfileUuid # IdTokenUuid) =>
    /\ upc = "done"
    /\ uOutcome = [ how |-> "threw", error |-> UuidMismatchError ]
    /\ uCall = << >>

\* Two different UUIDs, with the dangerous fallback allowed.
C14_Witness ==
  /\ upc = "done" /\ DangerousFallbackAllowed
  /\ ProfileUuid # << >> /\ IdTokenDecodes /\ IdTokenUuid # << >>
  /\ ProfileUuid # IdTokenUuid
  /\ uOutcome.how = "threw"

\* A UUID in the profile and none in the ID token.
C14_WitnessAbsentInToken ==
  /\ upc = "done"
  /\ ProfileUuid # << >> /\ IdTokenDecodes /\ IdTokenUuid = << >>

\* Equal UUIDs: the sign-in call is made, with the fallback reference.
C14_WitnessMatch ==
  /\ upc = "done" /\ DangerousFallbackAllowed
  /\ ProfileUuid # << >> /\ IdTokenDecodes /\ ProfileUuid = IdTokenUuid
  /\ uOutcome.how = "returned" /\ ~ uOutcome.value.fromCatalog

\* C15 (as claimed): a sign-in whose lookups failed only with the
\* NotFoundError, all of them or all but the last, made one sleep less than
\* lookups.
C15_OneSleepLessThanLookups ==
  (LoopEnded /\ notFounds >= lookups - 1) => sleeps = lookups - 1

\* C15 (amended): every lookup that throws the NotFoundError is followed by
\* a 300 ms sleep and an increment of the attempt counter, the tenth
\* included; the counter is tested only after the sleep. So the sleeps of a
\* sign-in are as many as its NotFoundErrors: a sign-in that ends on its n-th
\* lookup after n-1 NotFoundErrors slept n-1 times, and one whose 10 lookups
\* all threw the NotFoundError slept 10 times (3000 ms) before it failed.
C15_SleepAfterEveryNotFound ==
  /\ sleeps = notFounds
  /\ attempt = IF rpc = "sleep" THEN sleeps - 1 ELSE sleeps
  /\ slept = 300 * attempt
  /\ rpc \in { "lookupAwait", "sleep" } => attempt < 10
  /\ (LoopEnded /\ notFounds = lookups - 1) => sleeps = lookups - 1
  /\ (LoopEnded /\ notFounds = lookups) =>
       /\ lookups = 10 /\ sleeps = 10 /\ slept = 3000
       /\ outcome = [ how |-> "threw", error |-> NotConvergedError(userEntityRef) ]

\* Ten lookups, ten sleeps, then the failure.
C15_Witness ==
  /\ LoopEnded /\ lookups = 10 /\ sleeps = 10 /\ slept = 3000
  /\ outcome.how = "threw"

\* The tenth NotFoundError is being slept on.
C15_WitnessLastSleep == rpc = "sleep" /\ lookups = 10 /\ attempt = 9 /\ sleeps = 10

\* No flow awaits a publish.
AllSettled == \A f \in Flows : flows[f].pc = "idle"

\* The catalog holds the entity.
InCatalog(d) == \E i \in 1..Len(catalog) : catalog[i] = d

\* The number of the call the catalog applied last, 0 when it applied none.
LastApplied == IF applied = << >> THEN 0 ELSE applied[Len(applied)]

\* C16: with flows that do not wait for one another, an upsert changes only
\* the slot of its own key and, when connected, publishes the whole cache as
\* a full mutation; and when the catalog has applied the latest call last,
\* it holds the cache. (The interleaving of the claim, an older snapshot
\* applied after a newer one, is the witness.)
C16_OwnSlotFullSnapshot ==
  [][ /\ \A f \in Flows, e \in FlowEntities :
           flowAddOrUpdateUser(f, e) =>
             /\ \A k \in AllKeys \ { EntityKey(e) } :
                  MapGet(userCache', k) = MapGet(userCache, k)
             /\ MapGet(userCache', EntityKey(e)) = << DeferredEntity(e) >>
             /\ connection # None =>
                  flows'[f].mutation =
                    << [ type |-> "full", entities |-> MapValues(userCache') ] >>
      /\ (nCalls' > 0 /\ LastApplied' = nCalls') => catalog' = MapValues(userCache')
    ]_vars

\* Two upserts of different identities, both published; the catalog applied
\* the second call, then the first: no publish is pending and the catalog
\* lacks an identity that the cache holds.
C16_Witness ==
  /\ AllSettled
  /\ applied = << 2, 1 >>
  /\ Len(userCache) = 2 /\ Len(catalog) = 1
  /\ \E i \in 1..Len(userCache) : ~ InCatalog(userCache[i].value)

\* The same, then a third publish: the catalog holds the cache again.
C16_WitnessHealed ==
  /\ AllSettled
  /\ applied = << 2, 1, 3 >>
  /\ Len(userCache) = 2
  /\ catalog = MapValues(userCache)

\* Flow f makes its applyMutation call in this step.
MakesCall(f) == flows[f].pc = "idle" /\ flows'[f].pc # "idle"

\* C17 (as claimed): once calls of flows that do not wait for one another
\* have overlapped and all have settled, some applyMutation call has carried
\* a list of entities that was not the cache as left by its caller's edit.
C17_OverlapPublishesMixedList == (overlapped /\ AllSettled) => mismatched

\* C17 (amended): also with flows that do not wait for one another, each
\* applyMutation call carries exactly the cache as it is right after the
\* edit of the call that makes it, and that cache is the one before the call
\* with only that edit applied: nothing runs between the edit and the
\* snapshot. What the flows can interleave is the settling of their
\* publishes (C16).
C17_PublishIsCacheAfterOwnEdit ==
  [][ \A f \in Flows :
        MakesCall(f) =>
          LET m == flows'[f].mutation[1]
              k == flows'[f].key
          IN  /\ m.type = "full"
              /\ m.entities = MapValues(userCache')
              /\ \A j \in AllKeys \ { k } : MapGet(userCache', j) = MapGet(userCache, j)
              /\ IF flows'[f].pc = "addAwait"
                 THEN \E e \in FlowEntities :
                        EntityKey(e) = k /\ MapGet(userCache', k) = << DeferredEntity(e) >>
                 ELSE MapGet(userCache', k) = << >>
              /\ ~ mismatched'
    ]_vars

\* A call made while another is pending: an upsert and a removal overlap.
C17_Witness ==
  /\ overlapped
  /\ \E f, g \in Flows :
       /\ flows[f].pc = "addAwait" /\ flows[g].pc = "removeAwait"
       /\ flows[f].callNo < flows[g].callNo
       /\ flows[g].mutation[1].entities = MapValues(userCache)

\* The latest applyMutation call carries the entity.
InLastCall(d) == \E i \in 1..Len(lastCall.entities) : lastCall.entities[i] = d

\* C18: whenever an applyMutation call succeeds, the batch it delivered
\* holds every record upserted so far and not removed since, whether the
\* publish of that upsert succeeded, failed or was skipped for want of a
\* connection; and connect itself makes no applyMutation call and leaves the
\* cache as it is.
C18_SuccessfulPublishCarriesAll ==
  [][ /\ (lastCall.state = "pending" /\ lastCall'.state = "fulfilled") =>
           /\ lastCall'.type = "full"
           /\ \A k \in AllKeys :
                hist[k].op = "upsert" => InLastCall(DeferredEntity(hist[k].entity[1]))'
      /\ \A c \in Connections :
           connect(c) => /\ nCalls' = nCalls
                         /\ lastCall' = lastCall
                         /\ userCache' = userCache
                         /\ pc' = "idle"
    ]_vars

\* The first applyMutation call ever made has succeeded with two records:
\* one of them was upserted before, with no connection to publish it to.
C18_Witness ==
  /\ nCalls = 1 /\ lastCall.state = "fulfilled" /\ pc = "idle"
  /\ Len(lastCall.entities) = 2
  /\ \A k \in AllKeys : hist[k].op # "remove"

\* A connection registered on a filled cache, nothing published.
C18_WitnessConnect ==
  /\ connection # None /\ nCalls = 0 /\ userCache # << >>
  /\ logged = << "debug", "Dynamic User Entity Provider connected" >>

\* C19: the provisioning resolver calls ctx.signInWithCatalogUser with the
\* entity reference of the identity and no dangerous fallback, whatever its
\* options; a sign-in returns a result only after such a lookup resolved, and
\* the result is the catalog's for that reference.
C19_NoDangerousFallback ==
  /\ lookupCall # << >> =>
       lookupCall[1] = [ entityRef |-> userEntityRef, dangerousEntityRefFallback |-> << >> ]
  /\ (rpc = "done" /\ outcome.how = "returned") =>
       /\ userEntityRef # None
       /\ lookups >= 1 /\ lookupCall # << >>
       /\ notFounds < lookups
       /\ outcome.value = SignInResult(userEntityRef)
  /\ (rpc = "done" /\ outcome.how # "returned") => result = << >>

FallbackOptionSet ==
  /\ options # << >>
  /\ "dangerouslyAllowSignInWithoutUserInCatalog" \in DOMAIN options[1]
  /\ options[1].dangerouslyAllowSignInWithoutUserInCatalog

\* The option is set and every lookup missed: the sign-in failed.
C19_Witness ==
  /\ FallbackOptionSet
  /\ LoopEnded /\ notFounds = 10 /\ lookups = 10
  /\ outcome.how = "threw" /\ result = << >>

\* The option is set and a lookup resolved: the catalog's result is returned.
C19_WitnessReturned ==
  /\ FallbackOptionSet
  /\ LoopEnded /\ outcome.how = "returned" /\ notFounds = 1

\* The characters of an email before its first '@' (all of them when it has none).
LocalPart(email) ==
  IF FirstIndex(email, "@") = 0 THEN email
  ELSE SubSeq(email, 1, FirstIndex(email, "@") - 1)

\* The sign-ins that are provisioned: a token that decodes and an email.
Provisioned(info) == ~ NoParseablePayload(info) /\ ~ NoEmail(info)

\* C20: a provisioned sign-in names its identity by the part of the email
\* before the first '@': its cache key is User:default/<name> and its entity
\* reference user:default/<name>, whatever the domain. From its upsert on,
\* the cache holds one slot for that key, with the email and the memberships
\* of this sign-in: the record of an earlier sign-in with the same local part
\* is overwritten, and no second slot is made for it.
C20_LocalPartIsTheKey ==
  (signIns > 0 /\ Provisioned(lastInfo)) =>
    LET name == Join(LocalPart(lastInfo.email[1]))
        key  == "User:default/" \o name
    IN  /\ arg.op = "add" /\ arg.key = key
        /\ userEntityRef = "user:default/" \o name
        /\ SlotsOf(key) = 1
        /\ MapGet(userCache, key)[1].entity.email = Join(lastInfo.email[1])
        /\ MapGet(userCache, key)[1].entity.memberOf = Groups(Claims(lastInfo))
        /\ \A k \in AllKeys : SlotsOf(k) <= 1
        /\ replaced # << >> =>
             /\ EntityKey(replaced[1].entity) = key
             /\ \E m \in Emails :
                  /\ m # << >> /\ m[1] # << >>
                  /\ Join(m[1]) = replaced[1].entity.email
                  /\ LocalPart(m[1]) = LocalPart(lastInfo.email[1])

\* The sign-in of j@b overwrote the record that a sign-in of j@a had left:
\* one slot, under User:default/j, with the later email.
C20_Witness ==
  /\ rpc = "upsertAwait" /\ signIns = 2
  /\ lastInfo.email = << << "j", "@", "b" >> >>
  /\ replaced # << >>
  /\ replaced[1].entity.email = "j@a"
  /\ userEntityRef = "user:default/j"
  /\ Len(userCache) = 1
  /\ userCache[1].key = "User:default/j"
  /\ userCache[1].value.entity.email = "j@b"

====
